---- MODULE Spec2Model ----
(***************************************************************************)
(* Loyalty-points backend (purchases, coupons, customers) and the points   *)
(* preview of the admin panel.                                             *)
(*                                                                         *)
(* The store is the relational database behind Prisma: customers,          *)
(* purchases and coupons.  Every request handler is a sequence of store    *)
(* round trips (awaits); each round trip is one atomic step and other      *)
(* requests may run between two of them.  A prisma.$transaction is one     *)
(* step: it commits as a whole or not at all.                              *)
(*                                                                         *)
(* JavaScript numbers are IEEE-754 doubles.  The point formulas multiply   *)
(* by 1.1, 1.4 and 1.7, which are not representable, so the arithmetic is  *)
(* modelled bit-exactly (53-bit significand, round to nearest even).       *)
(***************************************************************************)
EXTENDS Integers, Sequences, FiniteSets, TLC

(***************************************************************************)
(* Bounds of the model.                                                    *)
(***************************************************************************)
\* amounts 1..MaxAmount are enumerated for the point formulas
MaxAmount == 200
\* number of request slots of the concurrent specification
MaxReqs == 3
\* sequential purchases recorded for one customer
MaxVisits == 52

\* the last year the server clock reaches
MaxYear == 2025

\* requests served one after the other by the ledger specification
MaxOps == 3

\* requests served one after the other by the access specification
MaxAccessOps == 2

(***************************************************************************)
(* IEEE-754 double arithmetic on positive numbers.                         *)
(* A double is [man, exp]: man is the 53-bit significand, most significant *)
(* bit first (man[1] = 1), and the value is man * 2^exp.  Zero is the      *)
(* empty significand.                                                      *)
(***************************************************************************)
Precision == 53

DZero == [man |-> << >>, exp |-> 0]

RECURSIVE IntBits(_)
\* binary digits of n, most significant first, no leading zero
IntBits(n) == IF n = 0 THEN << >> ELSE Append(IntBits(n \div 2), n % 2)

RECURSIVE BitsInt(_)
\* the integer written by the bits b, most significant first
BitsInt(b) ==
    IF Len(b) = 0 THEN 0
    ELSE 2 * BitsInt(SubSeq(b, 1, Len(b) - 1)) + b[Len(b)]

Zeros(n) == [i \in 1..n |-> 0]

AnyOne(b) == \E i \in 1..Len(b) : b[i] = 1

RECURSIVE BitsInc(_)
\* b + 1 on a fixed width; all ones wraps to all zeros
BitsInc(b) ==
    IF Len(b) = 0 THEN << >>
    ELSE IF b[Len(b)] = 0
         THEN Append(SubSeq(b, 1, Len(b) - 1), 1)
         ELSE Append(BitsInc(SubSeq(b, 1, Len(b) - 1)), 0)

\* Round the exact value (bits * 2^exp, plus something in (0, 2^exp) when
\* sticky) to the nearest double, ties to even.  bits[1] = 1.
RoundNearestEven(bits, exp, sticky) ==
    LET L == Len(bits) IN
    IF L = 0 THEN DZero
    ELSE IF L <= Precision
    THEN [man |-> bits \o Zeros(Precision - L), exp |-> exp - (Precision - L)]
    ELSE LET keep  == SubSeq(bits, 1, Precision)
             guard == bits[Precision + 1]
             rest  == sticky \/ AnyOne(SubSeq(bits, Precision + 2, L))
             up    == guard = 1 /\ (rest \/ keep[Precision] = 1)
             e     == exp + (L - Precision)
         IN  IF ~up THEN [man |-> keep, exp |-> e]
             ELSE IF AnyOne(BitsInc(keep))
                  THEN [man |-> BitsInc(keep), exp |-> e]
                  ELSE [man |-> <<1>> \o Zeros(Precision - 1), exp |-> e + 1]

\* an integer as a double (exact below 2^53)
DFromInt(n) == RoundNearestEven(IntBits(n), 0, FALSE)

RECURSIVE DivFrac(_, _, _, _)
\* Long division: append quotient bits of r/b (r < b) to acc until acc has
\* Precision + 2 significant bits; <<bits, number of fraction bits, sticky>>.
DivFrac(r, b, acc, nfrac) ==
    IF r = 0 \/ Len(acc) >= Precision + 2
    THEN <<acc, nfrac, r # 0>>
    ELSE LET q == (2 * r) \div b
             acc2 == IF Len(acc) = 0 /\ q = 0 THEN acc ELSE Append(acc, q)
         IN  DivFrac((2 * r) % b, b, acc2, nfrac + 1)

\* a / b for small positive integers a >= 0, b > 0: the correctly rounded
\* quotient.  This is also the value of a decimal literal such as 1.1
\* (the double nearest to 11/10).
DDivInt(a, b) ==
    LET d == DivFrac(a % b, b, IntBits(a \div b), 0)
    IN  RoundNearestEven(d[1], 0 - d[2], d[3])

\* The product of two significands is computed on limbs of LimbBits bits.
LimbBits == 8

LimbBase == 256

\* number of limbs of a significand
NLimbs(man) == (Len(man) + LimbBits - 1) \div LimbBits

\* limb i (weight LimbBase^i) of a significand
Limb(man, i) ==
    LET hi == Len(man) - i * LimbBits
        lo == IF hi - LimbBits + 1 < 1 THEN 1 ELSE hi - LimbBits + 1
    IN  IF hi < 1 THEN 0 ELSE BitsInt(SubSeq(man, lo, hi))

\* sum of the partial products falling in limb column k of x * y
RECURSIVE Column(_, _, _, _)
Column(x, y, k, i) ==
    IF i < 0 THEN 0
    ELSE Limb(x, i) * Limb(y, k - i) + Column(x, y, k, i - 1)

\* n written on exactly LimbBits bits
LimbToBits(n) == [j \in 1..LimbBits |-> (n \div (2 ^ (LimbBits - j))) % 2]

RECURSIVE StripZeros(_)
StripZeros(b) ==
    IF Len(b) = 0 \/ b[1] = 1 THEN b ELSE StripZeros(SubSeq(b, 2, Len(b)))

RECURSIVE MulLimbs(_, _, _, _, _)
\* exact product of two significands, most significant bit first, with
\* leading zeros
MulLimbs(x, y, k, carry, acc) ==
    IF carry = 0 /\ k > NLimbs(x) + NLimbs(y) - 2 THEN acc
    ELSE LET t == Column(x, y, k, k) + carry
         IN  MulLimbs(x, y, k + 1, t \div LimbBase, LimbToBits(t % LimbBase) \o acc)

MulBits(x, y) == StripZeros(MulLimbs(x, y, 0, 0, << >>))

\* x * y, correctly rounded
DMul(x, y) ==
    IF Len(x.man) = 0 \/ Len(y.man) = 0 THEN DZero
    ELSE RoundNearestEven(MulBits(x.man, y.man), x.exp + y.exp, FALSE)

\* Math.floor of a double that is below 2^53
DFloor(x) ==
    IF Len(x.man) = 0 THEN 0
    ELSE IF x.exp >= 0 THEN BitsInt(x.man \o Zeros(x.exp))
    ELSE IF 0 - x.exp >= Len(x.man) THEN 0
    ELSE BitsInt(SubSeq(x.man, 1, Len(x.man) + x.exp))

(***************************************************************************)
(* Roles and the point formulas.                                           *)
(***************************************************************************)
Roles == {"NORMAL", "LOYAL", "OWNER", "ADMIN"}

\* a role string outside the enum (calculatePoints takes any string)
UnknownRole == "GUEST"

\* multipliers[role] || 1.0
multipliers(role) ==
    CASE role = "NORMAL" -> DDivInt(11, 10)
      [] role = "LOYAL"  -> DDivInt(14, 10)
      [] role = "OWNER"  -> DDivInt(17, 10)
      [] role = "ADMIN"  -> DDivInt(10, 10)
      [] OTHER           -> DDivInt(10, 10)

\* utils/points.ts calculatePoints
calculatePoints(amount, role) ==
    LET basePoints == DFloor(DDivInt(amount, 100))
    IN  DFloor(DMul(DFromInt(basePoints), multipliers(role)))

\* Admin.tsx calculatePointsPreview, for a customer with the given role
calculatePointsPreview(amount, role) ==
    DFloor(DMul(DDivInt(amount, 100), multipliers(role)))

(***************************************************************************)
(* The store.                                                              *)
(***************************************************************************)
CustomerIds == {"c1", "c2", "c3"}

\* decimal digits of n, most significant first
RECURSIVE Digits(_)
Digits(n) == IF n < 10 THEN <<n>> ELSE Append(Digits(n \div 10), n % 10)

\* String.padStart(3, '0') on a digit string
PadStart3(d) == IF Len(d) >= 3 THEN d ELSE [i \in 1..(3 - Len(d)) |-> 0] \o d

\* parseInt of a digit string
RECURSIVE parseInt(_)
parseInt(d) ==
    IF Len(d) = 0 THEN 0
    ELSE 10 * parseInt(SubSeq(d, 1, Len(d) - 1)) + d[Len(d)]

\* utils/points.ts generateLoyaltyId: `CUST${pad3(lastId + 1)}`, kept as the
\* prefix and the digit string
generateLoyaltyId(lastId) ==
    [prefix |-> "CUST", suffix |-> PadStart3(Digits(lastId + 1))]

\* the seeded administrator's loyalty ID, ADMIN001
AdminLoyaltyId == [prefix |-> "ADMIN", suffix |-> <<0, 0, 1>>]

NoLoyaltyId == [prefix |-> "", suffix |-> << >>]

\* a row of the customers table; exists = FALSE stands for "no such row"
NoCustomer ==
    [exists |-> FALSE, loyaltyId |-> NoLoyaltyId, email |-> "", role |-> "NORMAL",
     points |-> 0, totalSpent |-> 0, visitCount |-> 0]

\* createCustomer: role NORMAL, the counters at their column defaults
NewCustomer ==
    [exists |-> TRUE, loyaltyId |-> generateLoyaltyId(3), email |-> "new@email.hu",
     role |-> "NORMAL", points |-> 0, totalSpent |-> 0, visitCount |-> 0]

\* rows written by the seed script
SeedAdmin ==
    [exists |-> TRUE, loyaltyId |-> AdminLoyaltyId, email |-> "admin@fastfood.hu",
     role |-> "ADMIN", points |-> 0, totalSpent |-> 0, visitCount |-> 0]

SeedCust002 ==
    [exists |-> TRUE, loyaltyId |-> generateLoyaltyId(1), email |-> "anna.kovacs@email.hu",
     role |-> "LOYAL", points |-> 140, totalSpent |-> 32000, visitCount |-> 25]

SeedCust003 ==
    [exists |-> TRUE, loyaltyId |-> generateLoyaltyId(2), email |-> "janos.szabo@email.hu",
     role |-> "OWNER", points |-> 220, totalSpent |-> 65000, visitCount |-> 45]

\* a customer created by createCustomer after 17 purchases of 500 and one
\* of 1400: two visits before the LOYAL threshold, points for one coupon
Visit18Customer ==
    [exists |-> TRUE, loyaltyId |-> generateLoyaltyId(3), email |-> "new@email.hu",
     role |-> "NORMAL", points |-> 100, totalSpent |-> 9900, visitCount |-> 18]

\* customers, purchases, coupons: the tables of the store
\* requests: the requests in progress or answered
\* calc: the purchase form of the admin panel
\* year: the calendar year of the server clock
\* history: what has happened so far: the coupon codes, loyalty IDs and
\*   customer ids handed out, the codes redeemed, the codes of deleted
\*   customers, the number of requests served
\* client: the web client of one browser: its localStorage, the API call in
\*   progress, the route shown
VARIABLES customers, purchases, coupons, requests, calc, year, history, client

vars == <<customers, purchases, coupons, requests, calc, year, history, client>>

store == <<customers, purchases, coupons>>

\* what no handler step changes besides the store and the requests
env == <<calc, year, history, client>>

\* the year of the server clock at the start
CurrentYear == 2024

\* the code string `COUP-${y}-${pad3(n)}`, kept as its two variable parts
Code(y, n) == [year |-> y, suffix |-> PadStart3(Digits(n))]

\* utils/points.ts generateCouponCode, with new Date().getFullYear() = year
generateCouponCode(lastId) == Code(year, lastId + 1)

\* string order of two digit strings
RECURSIVE StrLess(_, _)
StrLess(a, b) ==
    IF Len(b) = 0 THEN FALSE
    ELSE IF Len(a) = 0 THEN TRUE
    ELSE IF a[1] # b[1] THEN a[1] < b[1]
    ELSE StrLess(SubSeq(a, 2, Len(a)), SubSeq(b, 2, Len(b)))

\* string order of two coupon codes (the year has four digits)
CodeLess(x, y) ==
    \/ x.year < y.year
    \/ x.year = y.year /\ StrLess(x.suffix, y.suffix)

NoCode == [year |-> 0, suffix |-> << >>]

\* the coupon c1 holds at the start: COUP-2024-001, not redeemed
InitCoupon ==
    [code |-> Code(CurrentYear, 1), customerId |-> "c1", value |-> 1000,
     redeemed |-> FALSE, redeemedAt |-> 0]

(***************************************************************************)
(* Requests.  A slot holds one request: its inputs, its position (pc),     *)
(* the values it has read and the status it answered with (0 = none yet).  *)
(***************************************************************************)
ReqIds == 1..MaxReqs

\* req.user, the identity the access token carries: the customer's id and
\* the role the customer had when the token was signed
AdminActor == [id |-> "admin", role |-> "ADMIN"]

\* a request body of updateCustomer: the fields it carries and their values
Body(fields, points, role, visitCount) ==
    [fields |-> fields, points |-> points, role |-> role, visitCount |-> visitCount,
     loyaltyId |-> NoLoyaltyId]

NoBody == Body({}, 0, "NORMAL", 0)

\* a body that carries the key loyaltyId
LoyaltyIdBody(id) == [Body({"loyaltyId"}, 0, "NORMAL", 0) EXCEPT !.loyaltyId = id]

\* the body of a response that carries no data
NoResponse == [coupon |-> NoCode, customer |-> [id |-> "", loyaltyId |-> NoLoyaltyId]]

IdleRequest ==
    [op |-> "none", pc |-> "idle", actor |-> AdminActor, customerId |-> "c1",
     amount |-> 0, code |-> NoCode, email |-> "", body |-> NoBody,
     customer |-> NoCustomer, pointsEarned |-> 0, couponCode |-> NoCode,
     loyaltyId |-> NoLoyaltyId, status |-> 0, response |-> NoResponse]

\* a request of kind op sent by actor
Request(op, actor) == [IdleRequest EXCEPT !.op = op, !.actor = actor]

\* the request answered with status, without a further step
Answer(req, status) == [req EXCEPT !.pc = "done", !.status = status]

\* one purchase form of the admin panel: the amount typed, the role of the
\* customer selected, the preview shown and the points the backend records
\* (-1 = not computed yet)
IdleCalc == [amount |-> 0, role |-> "NORMAL", preview |-> 0 - 1, backend |-> 0 - 1]

\* purchase amounts of the requests
Amounts == {100, 2500}

\* the amount of the sequential purchases
SeqAmounts == {2500}

UpdateBodies ==
    { Body({"points"}, 0, "NORMAL", 0),
      Body({"points"}, 0 - 5, "NORMAL", 0),
      Body({"role"}, 0, "NORMAL", 0),
      Body({"visitCount"}, 0, "NORMAL", 19) }

\* coupon codes a redeem request may name
RedeemCodes == {Code(CurrentYear, 1), Code(CurrentYear, 2)}

\* the amount of the purchases of the ledger specification: 110 points for
\* a NORMAL customer
LedgerAmounts == {10000}

\* table of calculatePoints over the inputs the handlers use
PointsTable ==
    [a \in Amounts \cup SeqAmounts \cup LedgerAmounts, role \in Roles |->
        calculatePoints(a, role)]

\* slots are taken in order: slot r is used after slot r - 1
Free(r) ==
    /\ requests[r].pc = "idle"
    /\ IF r = 1 THEN TRUE ELSE requests[r - 1].pc # "idle"

CouponIndex(code) == {i \in 1..Len(coupons) : coupons[i].code = code}

(***************************************************************************)
(* middleware/auth.ts.  authenticate puts the token's identity in          *)
(* req.user; requireAdmin lets only an administrator through and answers   *)
(* every other requester with 403.                                         *)
(***************************************************************************)
\* variant: every authenticated requester is let through
requireAdminAnyone(actor) == actor.role \in Roles

requireAdmin(actor) == actor.role = "ADMIN"

\* variant: only the role is looked at, as for an administrator's route
ownOrAdminRoleOnly(actor, c) == actor.role \in Roles

\* the access test the customer-scoped handlers start with:
\* !(req.user.role !== 'ADMIN' && req.user.id !== customerId)
ownOrAdmin(actor, c) == ~(actor.role # "ADMIN" /\ actor.id # c)

(***************************************************************************)
(* purchaseController.ts createPurchase behind authenticate, requireAdmin  *)
(* and validate(createPurchaseSchema)                                      *)
(***************************************************************************)
\* variant: the thresholds applied to the visit count before the increment
autoUpgradeRolePreIncrement(customer) ==
    IF customer.visitCount >= 50 THEN "OWNER"
    ELSE IF customer.visitCount >= 20 THEN "LOYAL"
    ELSE customer.role

\* the role written by the transaction, from the customer row read before it
autoUpgradeRole(customer) ==
    IF customer.visitCount + 1 >= 50 THEN "OWNER"
    ELSE IF customer.visitCount + 1 >= 20 THEN "LOYAL"
    ELSE customer.role

\* variant: the update without the visitCount increment
updatedCustomerNoVisit(row, req) ==
    [row EXCEPT !.points = @ + req.pointsEarned,
                !.totalSpent = @ + req.amount,
                !.role = autoUpgradeRole(req.customer)]

\* variant: the new values are computed from the row read
updatedCustomerFromRead(row, req) ==
    [row EXCEPT !.points = req.customer.points + req.pointsEarned,
                !.totalSpent = req.customer.totalSpent + req.amount,
                !.visitCount = req.customer.visitCount + 1,
                !.role = autoUpgradeRole(req.customer)]

\* tx.customer.update: increments on the stored row, role from the row read
updatedCustomer(row, req) ==
    [row EXCEPT !.points = @ + req.pointsEarned,
                !.totalSpent = @ + req.amount,
                !.visitCount = @ + 1,
                !.role = autoUpgradeRole(req.customer)]

\* variant: the points are computed with the role the purchase leads to
earnedPointsUpgraded(customer, a) == PointsTable[a, autoUpgradeRole(customer)]

\* calculatePoints(amount, customer.role) on the row read
earnedPoints(customer, a) == PointsTable[a, customer.role]

\* requireAdmin, then findUnique, the 404 check and calculatePoints
createPurchaseFind(r, actor, c, a) ==
    LET req == [Request("purchase", actor) EXCEPT !.customerId = c, !.amount = a] IN
    /\ Free(r)
    /\ requests' = [requests EXCEPT ![r] =
          IF ~requireAdmin(actor) THEN Answer(req, 403)
          ELSE IF ~customers[c].exists THEN Answer(req, 404)
          ELSE [req EXCEPT !.pc = "tx", !.customer = customers[c],
                           !.pointsEarned = earnedPoints(customers[c], a)]]
    /\ UNCHANGED <<store, env>>

\* prisma.$transaction: purchase.create and customer.update, or neither
createPurchaseTx(r) ==
    LET req == requests[r] IN
    /\ req.op = "purchase"
    /\ req.pc = "tx"
    /\ IF customers[req.customerId].exists
       THEN /\ purchases' = Append(purchases,
                   [customerId |-> req.customerId, amount |-> req.amount,
                    pointsEarned |-> req.pointsEarned])
            /\ customers' = [customers EXCEPT ![req.customerId] = updatedCustomer(@, req)]
            /\ requests' = [requests EXCEPT ![r] = Answer(req, 201)]
       ELSE \* foreign key violation: rolled back, caught, 500
            /\ requests' = [requests EXCEPT ![r] = Answer(req, 500)]
            /\ UNCHANGED <<customers, purchases>>
    /\ UNCHANGED <<coupons, env>>

\* getPurchasesByCustomer: the access check, then findMany
getPurchasesByCustomer(r, actor, c) ==
    LET req == [Request("getPurchases", actor) EXCEPT !.customerId = c] IN
    /\ Free(r)
    /\ requests' = [requests EXCEPT ![r] =
          IF ~ownOrAdmin(actor, c) THEN Answer(req, 403) ELSE Answer(req, 200)]
    /\ UNCHANGED <<store, env>>

(***************************************************************************)
(* couponController.ts createCoupon                                        *)
(***************************************************************************)
\* variant: a balance of exactly 100 points is refused as well
enoughPointsStrict(customer) == customer.points > 100

\* !(customer.points < 100)
enoughPoints(customer) == ~(customer.points < 100)

\* the access check, findUnique, the 404 check and the points check
createCouponFind(r, actor, c) ==
    LET req == [Request("coupon", actor) EXCEPT !.customerId = c] IN
    /\ Free(r)
    /\ requests' = [requests EXCEPT ![r] =
          IF ~ownOrAdmin(actor, c) THEN Answer(req, 403)
          ELSE IF ~customers[c].exists THEN Answer(req, 404)
          ELSE IF ~enoughPoints(customers[c])
          THEN Answer([req EXCEPT !.customer = customers[c]], 400)
          ELSE [req EXCEPT !.pc = "findLast", !.customer = customers[c]]]
    /\ UNCHANGED <<store, env>>

\* coupon.findFirst({orderBy: {code: 'desc'}})
lastCoupon ==
    CHOOSE i \in 1..Len(coupons) :
        \A j \in 1..Len(coupons) : j = i \/ CodeLess(coupons[j].code, coupons[i].code)

lastIdNumber ==
    IF Len(coupons) = 0 THEN 0 ELSE parseInt(coupons[lastCoupon].code.suffix)

\* findFirst and generateCouponCode
createCouponFindLast(r) ==
    /\ requests[r].op = "coupon"
    /\ requests[r].pc = "findLast"
    /\ requests' = [requests EXCEPT ![r].pc = "tx",
                                    ![r].couponCode = generateCouponCode(lastIdNumber)]
    /\ UNCHANGED <<store, env>>

\* variant: the whole balance is taken
decrementedCustomerAll(row) == [row EXCEPT !.points = 0]

\* tx.customer.update({points: {decrement: 100}})
decrementedCustomer(row) == [row EXCEPT !.points = @ - 100]

\* prisma.$transaction: coupon.create and customer.update, or neither
createCouponTx(r) ==
    LET req == requests[r] IN
    /\ req.op = "coupon"
    /\ req.pc = "tx"
    /\ IF customers[req.customerId].exists /\ CouponIndex(req.couponCode) = {}
       THEN /\ coupons' = Append(coupons,
                   [code |-> req.couponCode, customerId |-> req.customerId,
                    value |-> 1000, redeemed |-> FALSE, redeemedAt |-> 0])
            /\ customers' = [customers EXCEPT ![req.customerId] = decrementedCustomer(@)]
            /\ requests' = [requests EXCEPT ![r] = Answer(req, 201)]
            /\ history' = [history EXCEPT !.codes = Append(@, req.couponCode)]
       ELSE \* unique or foreign key violation: rolled back, caught, 500
            /\ requests' = [requests EXCEPT ![r] = Answer(req, 500)]
            /\ UNCHANGED <<customers, coupons, history>>
    /\ UNCHANGED <<purchases, calc, year, client>>

\* getCouponsByCustomer: the access check, then findMany
getCouponsByCustomer(r, actor, c) ==
    LET req == [Request("getCoupons", actor) EXCEPT !.customerId = c] IN
    /\ Free(r)
    /\ requests' = [requests EXCEPT ![r] =
          IF ~ownOrAdmin(actor, c) THEN Answer(req, 403) ELSE Answer(req, 200)]
    /\ UNCHANGED <<store, env>>

\* variant: a redeemed coupon is refused as in redeemCoupon
lookupStatusUnredeemedOnly(code) ==
    IF CouponIndex(code) = {} THEN 404
    ELSE IF \E i \in CouponIndex(code) : coupons[i].redeemed THEN 400
    ELSE 200

\* the 404 check of lookupCoupon: the status from the coupon found
lookupStatus(code) == IF CouponIndex(code) = {} THEN 404 ELSE 200

\* findUnique({where: {code}, include: {customer: {select: ...}}}): the
\* coupon and, of its owner, the id and the loyaltyId (name and phone are
\* not rows of this model)
lookupResponse(code) ==
    LET coupon == coupons[CHOOSE i \in CouponIndex(code) : TRUE] IN
    [coupon |-> coupon,
     customer |-> [id |-> coupon.customerId,
                   loyaltyId |-> customers[coupon.customerId].loyaltyId]]

\* lookupCoupon behind requireAdmin: findUnique and the 404 check
lookupCoupon(r, actor, code) ==
    LET req == [Request("lookup", actor) EXCEPT !.code = code] IN
    /\ Free(r)
    /\ requests' = [requests EXCEPT ![r] =
          IF ~requireAdmin(actor) THEN Answer(req, 403)
          ELSE IF lookupStatus(code) = 200
          THEN Answer([req EXCEPT !.response = lookupResponse(code)], 200)
          ELSE Answer(req, lookupStatus(code))]
    /\ UNCHANGED <<store, env>>

(***************************************************************************)
(* couponController.ts redeemCoupon behind authenticate and requireAdmin   *)
(***************************************************************************)
\* variant: the flag is not looked at
alreadyRedeemedUnchecked(code) == FALSE

\* coupon.redeemed of the coupon found
alreadyRedeemed(code) == \E i \in CouponIndex(code) : coupons[i].redeemed

\* requireAdmin, then findUnique, the 404 check and the redeemed check
redeemCouponFind(r, actor, code) ==
    LET req == [Request("redeem", actor) EXCEPT !.code = code] IN
    /\ Free(r)
    /\ requests' = [requests EXCEPT ![r] =
          IF ~requireAdmin(actor) THEN Answer(req, 403)
          ELSE IF CouponIndex(code) = {} THEN Answer(req, 404)
          ELSE IF alreadyRedeemed(code) THEN Answer(req, 400)
          ELSE [req EXCEPT !.pc = "update"]]
    /\ UNCHANGED <<store, env>>

\* variant: the update also marks the owner's other coupons
redeemedCouponOfOwner(coupon, req, r) ==
    IF \E i \in CouponIndex(req.code) : coupons[i].customerId = coupon.customerId
    THEN [coupon EXCEPT !.redeemed = TRUE, !.redeemedAt = r]
    ELSE coupon

\* coupon.update({where: {code}, data: {redeemed: true, redeemedAt: new
\* Date()}}) seen from one row; the time of the write is the number of the
\* request that makes it
redeemedCoupon(coupon, req, r) ==
    IF coupon.code = req.code
    THEN [coupon EXCEPT !.redeemed = TRUE, !.redeemedAt = r]
    ELSE coupon

redeemCouponUpdate(r) ==
    LET req == requests[r] IN
    /\ req.op = "redeem"
    /\ req.pc = "update"
    /\ IF CouponIndex(req.code) # {}
       THEN /\ coupons' = [i \in 1..Len(coupons) |-> redeemedCoupon(coupons[i], req, r)]
            /\ requests' = [requests EXCEPT ![r] = Answer(req, 200)]
            /\ history' = [history EXCEPT !.redeemed = @ \cup {req.code}]
       ELSE \* record to update not found: caught, 500
            /\ requests' = [requests EXCEPT ![r] = Answer(req, 500)]
            /\ UNCHANGED <<coupons, history>>
    /\ UNCHANGED <<customers, purchases, calc, year, client>>

(***************************************************************************)
(* customerController.ts                                                   *)
(***************************************************************************)
\* getAllCustomers behind requireAdmin: findMany
getAllCustomers(r, actor) ==
    LET req == Request("getAll", actor) IN
    /\ Free(r)
    /\ requests' = [requests EXCEPT ![r] =
          IF ~requireAdmin(actor) THEN Answer(req, 403) ELSE Answer(req, 200)]
    /\ UNCHANGED <<store, env>>

\* getCustomerById: the access check, findUnique and the 404 check
getCustomerById(r, actor, c) ==
    LET req == [Request("getCustomer", actor) EXCEPT !.customerId = c] IN
    /\ Free(r)
    /\ requests' = [requests EXCEPT ![r] =
          IF ~ownOrAdmin(actor, c) THEN Answer(req, 403)
          ELSE IF ~customers[c].exists THEN Answer(req, 404)
          ELSE Answer(req, 200)]
    /\ UNCHANGED <<store, env>>

\* createCustomer behind requireAdmin and validate(createCustomerSchema):
\* findUnique({where: {email}}) and the 400 check
createCustomerFind(r, actor, email, body) ==
    LET req == [Request("createCustomer", actor) EXCEPT !.email = email, !.body = body] IN
    /\ Free(r)
    /\ requests' = [requests EXCEPT ![r] =
          IF ~requireAdmin(actor) THEN Answer(req, 403)
          ELSE IF \E c \in CustomerIds : customers[c].exists /\ customers[c].email = email
          THEN Answer(req, 400)
          ELSE [req EXCEPT !.pc = "findLast"]]
    /\ UNCHANGED <<store, env>>

\* string order of two loyalty IDs with the prefix CUST
LoyaltyIdLess(x, y) == StrLess(x.suffix, y.suffix)

\* the customers whose loyaltyId starts with 'CUST'
custRows ==
    {c \in CustomerIds : customers[c].exists /\ customers[c].loyaltyId.prefix = "CUST"}

\* customer.findFirst({where: {loyaltyId: {startsWith: 'CUST'}},
\*                     orderBy: {loyaltyId: 'desc'}})
lastCustomer ==
    CHOOSE c \in custRows :
        \A d \in custRows :
            d = c \/ LoyaltyIdLess(customers[d].loyaltyId, customers[c].loyaltyId)

\* parseInt(lastCustomer.loyaltyId.replace('CUST', '')), or 0
lastCustomerIdNumber ==
    IF custRows = {} THEN 0 ELSE parseInt(customers[lastCustomer].loyaltyId.suffix)

\* findFirst and generateLoyaltyId
createCustomerFindLast(r) ==
    /\ requests[r].op = "createCustomer"
    /\ requests[r].pc = "findLast"
    /\ requests' = [requests EXCEPT ![r].pc = "create",
                                    ![r].loyaltyId = generateLoyaltyId(lastCustomerIdNumber)]
    /\ UNCHANGED <<store, env>>

\* variant: the keys of the request body are written as well
createdCustomerFromBody(req) ==
    [exists |-> TRUE, loyaltyId |-> req.loyaltyId, email |-> req.email,
     role |-> IF "role" \in req.body.fields THEN req.body.role ELSE "NORMAL",
     points |-> IF "points" \in req.body.fields THEN req.body.points ELSE 0,
     totalSpent |-> 0, visitCount |-> 0]

\* the row customer.create writes: role NORMAL, the counters at their defaults
createdCustomer(req) ==
    [exists |-> TRUE, loyaltyId |-> req.loyaltyId, email |-> req.email,
     role |-> "NORMAL", points |-> 0, totalSpent |-> 0, visitCount |-> 0]

\* customer.create under a new id, after hashPassword; loyaltyId and email
\* are unique
createCustomerCreate(r) ==
    LET req == requests[r] IN
    /\ req.op = "createCustomer"
    /\ req.pc = "create"
    /\ IF \E c \in CustomerIds :
             /\ customers[c].exists
             /\ customers[c].loyaltyId = req.loyaltyId \/ customers[c].email = req.email
       THEN \* unique constraint violation: caught, 500
            /\ requests' = [requests EXCEPT ![r] = Answer(req, 500)]
            /\ UNCHANGED <<customers, history>>
       ELSE \E c \in CustomerIds \ history.ids :
               /\ c = CHOOSE d \in CustomerIds \ history.ids : TRUE
               /\ customers' = [customers EXCEPT ![c] = createdCustomer(req)]
               /\ requests' = [requests EXCEPT ![r] =
                                  Answer([req EXCEPT !.customerId = c], 201)]
               /\ history' = [history EXCEPT !.ids = @ \cup {c},
                                           !.loyaltyIds = Append(@, req.loyaltyId)]
    /\ UNCHANGED <<purchases, coupons, calc, year, client>>

\* updateCustomerSchema: points is an integer >= 0, role is one of the enum;
\* keys the schema does not name pass (the handler reads req.body itself)
validUpdate(body) ==
    /\ "points" \in body.fields => body.points >= 0
    /\ "role" \in body.fields => body.role \in Roles

\* variant: the role may be set by the customer it belongs to
roleChangeDeniedOthersOnly(actor, c, body) ==
    "role" \in body.fields /\ actor.role # "ADMIN" /\ actor.id # c

\* updates.role && req.user.role !== 'ADMIN'
roleChangeDenied(actor, c, body) == "role" \in body.fields /\ actor.role # "ADMIN"

\* customer.update({data: updates})
appliedUpdate(row, body) ==
    [row EXCEPT !.points = IF "points" \in body.fields THEN body.points ELSE @,
                !.role = IF "role" \in body.fields THEN body.role ELSE @,
                !.visitCount = IF "visitCount" \in body.fields THEN body.visitCount ELSE @,
                !.loyaltyId = IF "loyaltyId" \in body.fields THEN body.loyaltyId ELSE @]

\* the update would give the row a loyaltyId another row holds
loyaltyIdTaken(c, body) ==
    /\ "loyaltyId" \in body.fields
    /\ \E d \in CustomerIds \ {c} :
          customers[d].exists /\ customers[d].loyaltyId = body.loyaltyId

\* validate(updateCustomerSchema), then updateCustomer: the access check,
\* the role check and customer.update
updateCustomer(r, actor, c, body) ==
    LET req == [Request("update", actor) EXCEPT !.customerId = c, !.body = body]
        status == IF ~validUpdate(body) THEN 400
                  ELSE IF ~ownOrAdmin(actor, c) THEN 403
                  ELSE IF roleChangeDenied(actor, c, body) THEN 403
                  ELSE IF ~customers[c].exists THEN 500
                  ELSE IF loyaltyIdTaken(c, body) THEN 500
                  ELSE 200
    IN
    /\ Free(r)
    /\ requests' = [requests EXCEPT ![r] = Answer(req, status)]
    /\ customers' = IF status = 200
                    THEN [customers EXCEPT ![c] = appliedUpdate(@, body)]
                    ELSE customers
    /\ UNCHANGED <<purchases, coupons, env>>

\* the purchases and coupons left when customer c is deleted: the rows of c
\* go with it
cascade(rows, c) == SelectSeq(rows, LAMBDA row : row.customerId # c)

\* deleteCustomer behind requireAdmin: customer.delete
deleteCustomer(r, actor, c) ==
    LET req == [Request("deleteCustomer", actor) EXCEPT !.customerId = c]
        status == IF ~requireAdmin(actor) THEN 403
                  ELSE IF ~customers[c].exists THEN 500
                  ELSE 200
    IN
    /\ Free(r)
    /\ requests' = [requests EXCEPT ![r] = Answer(req, status)]
    /\ IF status = 200
       THEN /\ customers' = [customers EXCEPT ![c] = NoCustomer]
            /\ purchases' = cascade(purchases, c)
            /\ coupons' = cascade(coupons, c)
            /\ history' = [history EXCEPT !.deleted = @ \cup
                  {coupons[i].code : i \in {j \in 1..Len(coupons) : coupons[j].customerId = c}}]
       ELSE UNCHANGED <<store, history>>
    /\ UNCHANGED <<calc, year, client>>

\* the server clock passes midnight of December 31
newYear ==
    /\ year < MaxYear
    /\ year' = year + 1
    /\ UNCHANGED <<store, requests, calc, history, client>>

(***************************************************************************)
(* The web client: localStorage, the API client with its response          *)
(* interceptor, the login page and the guarded routes.                     *)
(***************************************************************************)
\* the token pairs the server signs in one behaviour
MaxTokens == 3

\* localStorage.getItem of a key that is not set; getAuth without a user
NoToken == 0

Null == [null |-> TRUE]

\* the value of a property an object does not have
Undefined == "undefined"

\* the user of the login response, as stored under currentUser (name, email,
\* phone, points and visitCount are carried along and not read by the routes)
loginUser(role) == [id |-> "id", loyaltyId |-> "loyaltyId", role |-> role]

\* obj.f
Get(obj, f) == IF f \in DOMAIN obj THEN obj[f] ELSE Undefined

\* the condition value of a property
Truthy(v) == v # Undefined /\ v # ""

\* pc: idle, sent, refreshing, resolved, rejected; retry: the _retry flag of
\* the request configuration; sends, refreshes: the requests and the token
\* refreshes of the call; status: the last response; event: the last thing
\* the client did; path, element: the route and what it renders
IdleClient ==
    [accessToken |-> NoToken, refreshToken |-> NoToken, currentUser |-> Null,
     pc |-> "idle", retry |-> FALSE, sends |-> 0, refreshes |-> 0, status |-> 0,
     event |-> "none", path |-> "/login", element |-> "Login", tokens |-> 0]

ProtectedPaths == {"/home", "/coupons", "/admin"}

ResponseErrors == {401, 500}

\* what the route guard renders: the page, the redirection, or the
\* TypeError of reading a property of null
ProtectedRoute(auth, allowedRoles) ==
    IF auth = Null THEN "TypeError"
    ELSE IF ~Truthy(Get(auth, "isAuthenticated")) THEN "/login"
    ELSE IF Truthy(Get(auth, "role")) /\ Get(auth, "role") \notin allowedRoles
         THEN "/login" ELSE "children"

allowedRoles(path) ==
    IF path = "/admin" THEN {"admin"} ELSE {"normal", "loyal", "owner"}

\* the element of the route table for path
RouteElement(path, auth) ==
    IF path \in ProtectedPaths THEN ProtectedRoute(auth, allowedRoles(path))
    ELSE "Login"

\* localStorage after the three removeItem calls
clearAuth(cl) ==
    [cl EXCEPT !.accessToken = NoToken, !.refreshToken = NoToken, !.currentUser = Null]

\* the login form submitted and accepted: tokens and user stored, then the
\* navigation by role
handleLogin(role) ==
    /\ client.tokens < MaxTokens
    /\ LET user == loginUser(role)
           path == IF role = "ADMIN" THEN "/admin" ELSE "/home"
       IN  client' = [client EXCEPT !.tokens = @ + 1,
                                    !.accessToken = client.tokens + 1,
                                    !.refreshToken = client.tokens + 1,
                                    !.currentUser = user,
                                    !.event = "login",
                                    !.path = path,
                                    !.element = RouteElement(path, user)]
    /\ UNCHANGED <<store, requests, calc, year, history>>

\* the browser opens a guarded route
navigate(path) ==
    /\ client' = [client EXCEPT !.event = "navigate", !.path = path,
                                !.element = RouteElement(path, client.currentUser)]
    /\ UNCHANGED <<store, requests, calc, year, history>>

handleLogout ==
    /\ client' = [clearAuth(client) EXCEPT !.event = "logout", !.path = "/login",
                                           !.element = "Login"]
    /\ UNCHANGED <<store, requests, calc, year, history>>

\* apiClient(config) with a new request configuration
apiCall ==
    /\ client.pc \in {"idle", "resolved", "rejected"}
    /\ client' = [client EXCEPT !.pc = "sent", !.retry = FALSE, !.sends = 1,
                                !.refreshes = 0, !.status = 0, !.event = "call"]
    /\ UNCHANGED <<store, requests, calc, year, history>>

\* response interceptor, first function
responseOk ==
    /\ client.pc = "sent"
    /\ client' = [client EXCEPT !.pc = "resolved", !.status = 200, !.event = "response"]
    /\ UNCHANGED <<store, requests, calc, year, history>>

\* variant: every 401 starts a refresh
shouldRefreshAlways(status, retry) == status = 401

shouldRefresh(status, retry) == status = 401 /\ ~retry

\* response interceptor, second function, up to the refresh request
responseError(status) ==
    /\ client.pc = "sent"
    /\ client' =
          IF shouldRefresh(status, client.retry)
          THEN IF client.refreshToken = NoToken
               THEN [clearAuth(client) EXCEPT !.retry = TRUE, !.pc = "rejected",
                        !.status = status, !.event = "response",
                        !.path = "/login", !.element = "Login"]
               ELSE [client EXCEPT !.retry = TRUE, !.pc = "refreshing",
                        !.refreshes = @ + 1, !.status = status, !.event = "response"]
          ELSE [client EXCEPT !.pc = "rejected", !.status = status, !.event = "response"]
    /\ UNCHANGED <<store, requests, calc, year, history>>

\* the refresh answered: tokens stored, the original request sent again
refreshOk ==
    /\ client.pc = "refreshing"
    /\ client.tokens < MaxTokens
    /\ client' = [client EXCEPT !.tokens = @ + 1,
                                !.accessToken = client.tokens + 1,
                                !.refreshToken = client.tokens + 1,
                                !.pc = "sent", !.sends = @ + 1, !.event = "refreshed"]
    /\ UNCHANGED <<store, requests, calc, year, history>>

\* the refresh refused: storage cleared, the login page, the call rejected
refreshFailed ==
    /\ client.pc = "refreshing"
    /\ client' = [clearAuth(client) EXCEPT !.pc = "rejected", !.event = "refreshFailed",
                                           !.path = "/login", !.element = "Login"]
    /\ UNCHANGED <<store, requests, calc, year, history>>

(***************************************************************************)
(* The concurrent specification: MaxReqs requests, interleaved at their    *)
(* store round trips.                                                      *)
(***************************************************************************)
InitCustomers == {SeedCust002, Visit18Customer}

\* a second customer with points for one coupon
OtherCustomer ==
    [NewCustomer EXCEPT !.loyaltyId = generateLoyaltyId(4), !.email = "other@email.hu",
                        !.points = 150, !.totalSpent = 12500, !.visitCount = 5]

CustomerOrder == <<"c1", "c2", "c3">>

\* what has been handed out when the store holds rows and coups: their
\* loyalty IDs, their codes, the ids of the rows; no request served yet
IssuedBy(rows, coups) ==
    [codes |-> [i \in 1..Len(coups) |-> coups[i].code],
     loyaltyIds |-> LET present == SelectSeq(CustomerOrder, LAMBDA c : rows[c].exists)
                    IN  [i \in 1..Len(present) |-> rows[present[i]].loyaltyId],
     ids |-> {c \in CustomerIds : rows[c].exists},
     redeemed |-> {coups[i].code : i \in {j \in 1..Len(coups) : coups[j].redeemed}},
     deleted |-> {},
     served |-> 0]

Init ==
    /\ \E row \in InitCustomers, other \in {NoCustomer, OtherCustomer} :
          customers = [c \in CustomerIds |->
                          IF c = "c1" THEN row ELSE IF c = "c2" THEN other ELSE NoCustomer]
    /\ purchases = << >>
    /\ coupons = <<InitCoupon>>
    /\ requests = [r \in ReqIds |-> IdleRequest]
    /\ calc = IdleCalc
    /\ year = CurrentYear
    /\ client = IdleClient
    /\ history = IssuedBy(customers, coupons)

\* the customers the requests name
TargetIds == {"c1", "c2"}

Next ==
    \/ \E r \in ReqIds, c \in TargetIds, a \in Amounts :
          createPurchaseFind(r, AdminActor, c, a)
    \/ \E r \in ReqIds : createPurchaseTx(r)
    \/ \E r \in ReqIds, c \in TargetIds : createCouponFind(r, AdminActor, c)
    \/ \E r \in ReqIds : createCouponFindLast(r)
    \/ \E r \in ReqIds : createCouponTx(r)
    \/ \E r \in ReqIds, code \in RedeemCodes : redeemCouponFind(r, AdminActor, code)
    \/ \E r \in ReqIds : redeemCouponUpdate(r)
    \/ \E r \in ReqIds, c \in TargetIds, body \in UpdateBodies :
          updateCustomer(r, AdminActor, c, body)

Spec == Init /\ [][Next]_vars

(***************************************************************************)
(* The sequential specification: one customer, purchases recorded one      *)
(* after the other (a request starts after the previous one has answered). *)
(***************************************************************************)
SeqInitCustomers == {NewCustomer, SeedAdmin, SeedCust003}

InitSeq ==
    /\ \E row \in SeqInitCustomers :
          customers = [c \in CustomerIds |-> IF c = "c1" THEN row ELSE NoCustomer]
    /\ purchases = << >>
    /\ coupons = << >>
    /\ requests = [r \in ReqIds |-> IdleRequest]
    /\ calc = IdleCalc
    /\ year = CurrentYear
    /\ client = IdleClient
    /\ history = IssuedBy(customers, coupons)

\* res.status(...).json(...): the handler returns and the slot is free again
respond(r) ==
    /\ requests[r].pc = "done"
    /\ requests' = [requests EXCEPT ![r] = IdleRequest]
    /\ history' = [history EXCEPT !.served = @ + 1]
    /\ UNCHANGED <<store, calc, year, client>>

NextSeq ==
    \/ \E a \in SeqAmounts :
          /\ customers["c1"].visitCount < MaxVisits
          /\ createPurchaseFind(1, AdminActor, "c1", a)
    \/ createPurchaseTx(1)
    \/ respond(1)

SpecSeq == InitSeq /\ [][NextSeq]_vars

(***************************************************************************)
(* The identifier specification: createCustomer and createCoupon requests  *)
(* of an administrator, interleaved at their store round trips.            *)
(***************************************************************************)
\* the email addresses of the createCustomer requests
Emails == {"new@email.hu", "second@email.hu", "third@email.hu"}

InitIds ==
    /\ customers = [c \in CustomerIds |->
                       IF c = "c1" THEN SeedCust002
                       ELSE IF c = "c2" THEN OtherCustomer ELSE NoCustomer]
    /\ purchases = << >>
    /\ coupons \in {<< >>, <<InitCoupon>>}
    /\ requests = [r \in ReqIds |-> IdleRequest]
    /\ calc = IdleCalc
    /\ year = CurrentYear
    /\ client = IdleClient
    /\ history = IssuedBy(customers, coupons)

NextIds ==
    \/ \E r \in ReqIds, email \in Emails : createCustomerFind(r, AdminActor, email, NoBody)
    \/ \E r \in ReqIds : createCustomerFindLast(r)
    \/ \E r \in ReqIds : createCustomerCreate(r)
    \/ \E r \in ReqIds, c \in CustomerIds : createCouponFind(r, AdminActor, c)
    \/ \E r \in ReqIds : createCouponFindLast(r)
    \/ \E r \in ReqIds : createCouponTx(r)

SpecIds == InitIds /\ [][NextIds]_vars

(***************************************************************************)
(* The ledger specification: an administrator's requests, served one after *)
(* the other, over coupons, customers and the change of year.              *)
(***************************************************************************)
\* the last customer and the last coupon of the three-digit range
Cust999Customer ==
    [Visit18Customer EXCEPT !.loyaltyId = generateLoyaltyId(998), !.points = 200]

Coupon999 == [InitCoupon EXCEPT !.code = Code(CurrentYear, 999)]

\* the stores the ledger specification starts from: c1 with 99, 100 or 150
\* points beside a second customer, or the three-digit range used up
OpsStores ==
    { [customers |-> [c \in CustomerIds |->
                         IF c = "c1" THEN [Visit18Customer EXCEPT !.points = p]
                         ELSE IF c = "c2" THEN OtherCustomer ELSE NoCustomer],
       coupons |-> coups] : p \in {99, 100, 150}, coups \in {<< >>, <<InitCoupon>>} }
    \cup
    { [customers |-> [c \in CustomerIds |->
                         IF c = "c1" THEN Cust999Customer ELSE NoCustomer],
       coupons |-> <<Coupon999>>] }

InitOps ==
    /\ \E s \in OpsStores : customers = s.customers /\ coupons = s.coupons
    /\ purchases = << >>
    /\ requests = [r \in ReqIds |-> IdleRequest]
    /\ calc = IdleCalc
    /\ year = CurrentYear
    /\ client = IdleClient
    /\ history = IssuedBy(customers, coupons)

\* bodies of createCustomer: the fields of the form, or a role and a balance
\* beside them
CreateBodies == {NoBody, Body({"role", "points"}, 500, "ADMIN", 0)}

\* the codes a lookup or a redemption names
OpsCodes == {Code(CurrentYear, 1), Code(CurrentYear, 2)}

\* the server takes another request
MoreOps == history.served < MaxOps

NextOps ==
    \/ \E c \in CustomerIds : MoreOps /\ createCouponFind(1, AdminActor, c)
    \/ \E code \in OpsCodes : MoreOps /\ redeemCouponFind(1, AdminActor, code)
    \/ \E email \in Emails, body \in CreateBodies :
          MoreOps /\ createCustomerFind(1, AdminActor, email, body)
    \/ \E c \in CustomerIds : MoreOps /\ deleteCustomer(1, AdminActor, c)
    \/ createCouponFindLast(1)
    \/ createCouponTx(1)
    \/ redeemCouponUpdate(1)
    \/ createCustomerFindLast(1)
    \/ createCustomerCreate(1)
    \/ newYear
    \/ respond(1)

SpecOps == InitOps /\ [][NextOps]_vars

(***************************************************************************)
(* The access specification: requests of every kind from administrators    *)
(* and customers, served one after the other.                              *)
(***************************************************************************)
\* bodies of updateCustomer: a balance, a role, a role outside the enum
AccessBodies ==
    { Body({"points"}, 500, "NORMAL", 0),
      Body({"role"}, 0, "OWNER", 0),
      Body({"role", "points"}, 500, "ADMIN", 0),
      Body({"role"}, 0, UnknownRole, 0),
      LoyaltyIdBody(generateLoyaltyId(0)),
      LoyaltyIdBody(generateLoyaltyId(4)) }

\* the requesters: the administrator, c1 with each role a token can carry,
\* and c2
AccessActors ==
    {AdminActor} \cup [id : {"c1"}, role : Roles \ {"ADMIN"}]
                 \cup {[id |-> "c2", role |-> "NORMAL"]}

InitAccess ==
    /\ customers = [c \in CustomerIds |->
                       IF c = "c1" THEN [Visit18Customer EXCEPT !.points = 150]
                       ELSE IF c = "c2" THEN OtherCustomer ELSE NoCustomer]
    /\ purchases = << >>
    /\ coupons = <<InitCoupon>>
    /\ requests = [r \in ReqIds |-> IdleRequest]
    /\ calc = IdleCalc
    /\ year = CurrentYear
    /\ client = IdleClient
    /\ history = IssuedBy(customers, coupons)

\* the server takes another request
MoreAccessOps == history.served < MaxAccessOps

NextAccess ==
    \/ \E actor \in AccessActors, c \in CustomerIds, a \in SeqAmounts :
          MoreAccessOps /\ createPurchaseFind(1, actor, c, a)
    \/ \E actor \in AccessActors, c \in CustomerIds :
          MoreAccessOps /\ getPurchasesByCustomer(1, actor, c)
    \/ \E actor \in AccessActors, c \in CustomerIds :
          MoreAccessOps /\ createCouponFind(1, actor, c)
    \/ \E actor \in AccessActors, c \in CustomerIds :
          MoreAccessOps /\ getCouponsByCustomer(1, actor, c)
    \/ \E actor \in AccessActors, code \in OpsCodes :
          MoreAccessOps /\ lookupCoupon(1, actor, code)
    \/ \E actor \in AccessActors, code \in OpsCodes :
          MoreAccessOps /\ redeemCouponFind(1, actor, code)
    \/ \E actor \in AccessActors : MoreAccessOps /\ getAllCustomers(1, actor)
    \/ \E actor \in AccessActors, c \in CustomerIds :
          MoreAccessOps /\ getCustomerById(1, actor, c)
    \/ \E actor \in AccessActors, email \in Emails :
          MoreAccessOps /\ createCustomerFind(1, actor, email, NoBody)
    \/ \E actor \in AccessActors, c \in CustomerIds, body \in AccessBodies :
          MoreAccessOps /\ updateCustomer(1, actor, c, body)
    \/ \E actor \in AccessActors, c \in CustomerIds :
          MoreAccessOps /\ deleteCustomer(1, actor, c)
    \/ createPurchaseTx(1)
    \/ createCouponFindLast(1)
    \/ createCouponTx(1)
    \/ redeemCouponUpdate(1)
    \/ createCustomerFindLast(1)
    \/ createCustomerCreate(1)
    \/ respond(1)

SpecAccess == InitAccess /\ [][NextAccess]_vars

\* the web client of a browser in which nobody has logged in
InitClient ==
    /\ customers = [c \in CustomerIds |-> IF c = "c1" THEN SeedCust002 ELSE NoCustomer]
    /\ purchases = << >>
    /\ coupons = << >>
    /\ requests = [r \in ReqIds |-> IdleRequest]
    /\ calc = IdleCalc
    /\ year = CurrentYear
    /\ client = IdleClient
    /\ history = IssuedBy(customers, coupons)

NextClient ==
    \/ \E role \in Roles : handleLogin(role)
    \/ \E path \in ProtectedPaths : navigate(path)
    \/ handleLogout
    \/ apiCall
    \/ responseOk
    \/ \E status \in ResponseErrors : responseError(status)
    \/ refreshOk
    \/ refreshFailed

SpecClient == InitClient /\ [][NextClient]_vars

(***************************************************************************)
(* The balance specification: two customers just created, purchases and    *)
(* coupons of an administrator's requests interleaved at their store round *)
(* trips.                                                                  *)
(***************************************************************************)
\* a second customer just created
NewOtherCustomer ==
    [NewCustomer EXCEPT !.loyaltyId = generateLoyaltyId(4), !.email = "other@email.hu"]

InitLedger ==
    /\ customers = [c \in CustomerIds |->
                       IF c = "c1" THEN NewCustomer
                       ELSE IF c = "c2" THEN NewOtherCustomer ELSE NoCustomer]
    /\ purchases = << >>
    /\ coupons = << >>
    /\ requests = [r \in ReqIds |-> IdleRequest]
    /\ calc = IdleCalc
    /\ year = CurrentYear
    /\ client = IdleClient
    /\ history = IssuedBy(customers, coupons)

NextLedger ==
    \/ \E r \in ReqIds, c \in TargetIds, a \in LedgerAmounts :
          createPurchaseFind(r, AdminActor, c, a)
    \/ \E r \in ReqIds : createPurchaseTx(r)
    \/ \E r \in ReqIds, c \in TargetIds : createCouponFind(r, AdminActor, c)
    \/ \E r \in ReqIds : createCouponFindLast(r)
    \/ \E r \in ReqIds : createCouponTx(r)

SpecLedger == InitLedger /\ [][NextLedger]_vars

(***************************************************************************)
(* The point formulas as functions: every amount and role, the backend's   *)
(* calculatePoints and the admin panel's preview.                          *)
(***************************************************************************)
PointAmounts == (1..MaxAmount) \cup {2500, 4500}

InitPoints ==
    /\ customers = [c \in CustomerIds |-> NoCustomer]
    /\ purchases = << >>
    /\ coupons = << >>
    /\ requests = [r \in ReqIds |-> IdleRequest]
    /\ \E a \in PointAmounts, role \in Roles \cup {UnknownRole} :
          calc = [IdleCalc EXCEPT !.amount = a, !.role = role]
    /\ year = CurrentYear
    /\ client = IdleClient
    /\ history = IssuedBy(customers, coupons)

\* the purchase form shows calculatePointsPreview (the selected customer's
\* role is one of the enum)
showPreview ==
    /\ calc.preview < 0
    /\ calc.role \in Roles
    /\ calc' = [calc EXCEPT !.preview = calculatePointsPreview(calc.amount, calc.role)]
    /\ UNCHANGED <<store, requests, year, history, client>>

\* createPurchase computes pointsEarned
computePoints ==
    /\ calc.backend < 0
    /\ calc' = [calc EXCEPT !.backend = calculatePoints(calc.amount, calc.role)]
    /\ UNCHANGED <<store, requests, year, history, client>>

NextPoints == showPreview \/ computePoints

SpecPoints == InitPoints /\ [][NextPoints]_vars

(***************************************************************************)
(* Properties.                                                             *)
(***************************************************************************)
\* the promotion order NORMAL < LOYAL < OWNER
RoleRank(role) ==
    CASE role = "NORMAL" -> 0
      [] role = "LOYAL"  -> 1
      [] role = "OWNER"  -> 2
      [] OTHER           -> 3

\* the promotion rule as specified: admins are never promoted, the
\* thresholds apply to the visit count after the increment
roleAfterVisit(currentRole, newVisitCount) ==
    IF currentRole = "ADMIN" THEN "ADMIN"
    ELSE IF newVisitCount >= 50 THEN "OWNER"
    ELSE IF newVisitCount >= 20 THEN "LOYAL"
    ELSE currentRole

\* the multiplier in tenths
Tenths(role) ==
    CASE role = "NORMAL" -> 11
      [] role = "LOYAL"  -> 14
      [] role = "OWNER"  -> 17
      [] OTHER           -> 10

\* floor(floor(amount / 100) * m) in exact arithmetic
ExactPoints(amount, role) == ((amount \div 100) * Tenths(role)) \div 10

\* README "Point Calculation": Math.floor((amount / 100) * multiplier)
readmeFormula(amount, role) ==
    DFloor(DMul(DDivInt(amount, 100), multipliers(role)))

\* request r takes a step of createPurchase
PurchaseStep(r) == requests'[r] # requests[r] /\ requests'[r].op = "purchase"

\* request r commits its purchase in this step
PurchaseCommit(r) == PurchaseStep(r) /\ requests'[r].status = 201

\* requests r1 and r2 are two requests of the same kind
Pair(r1, r2, op) ==
    /\ r1 # r2
    /\ requests[r1].op = op /\ requests[r1].pc = "done"
    /\ requests[r2].op = op /\ requests[r2].pc = "done"

\* C1: in every reachable state every customer's points balance is >= 0.
C1_PointsNonNegative ==
    \A c \in CustomerIds : customers[c].exists => customers[c].points >= 0

\* C2: of two createCoupon requests for the same customer that both read a
\* balance of exactly 100 points, at most one succeeds.
C2_AtMostOneCoupon ==
    \A r1, r2 \in ReqIds :
        ( /\ Pair(r1, r2, "coupon")
          /\ requests[r1].customerId = requests[r2].customerId
          /\ requests[r1].customer.points = 100
          /\ requests[r2].customer.points = 100 )
        => ~(requests[r1].status = 201 /\ requests[r2].status = 201)

\* C3: two redeemCoupon requests for the same coupon code never both
\* succeed.
C3_SingleRedemption ==
    \A r1, r2 \in ReqIds :
        (Pair(r1, r2, "redeem") /\ requests[r1].code = requests[r2].code)
        => ~(requests[r1].status = 200 /\ requests[r2].status = 200)

\* C4: a committed purchase never lowers a non-admin customer's role along
\* NORMAL < LOYAL < OWNER.
C4_RoleNeverLowered ==
    [][\A r \in ReqIds :
          (PurchaseCommit(r) /\ customers[requests'[r].customerId].role # "ADMIN")
          => RoleRank(customers'[requests'[r].customerId].role)
                >= RoleRank(customers[requests'[r].customerId].role)]_vars

\* C5: a committed purchase for a customer whose role is ADMIN leaves the
\* role ADMIN.
C5_AdminStaysAdmin ==
    [][\A r \in ReqIds :
          (PurchaseCommit(r) /\ customers[requests'[r].customerId].role = "ADMIN")
          => customers'[requests'[r].customerId].role = "ADMIN"]_vars

\* C6: every step of a recordPurchase request either applies all effects of
\* the purchase (one new row with the computed pointsEarned, points +
\* pointsEarned, totalSpent + amount, visitCount + 1, nothing else) when it
\* answers 201, or leaves the store unchanged; and a purchase row appears
\* only in such a step.
C6_PurchaseAtomic ==
    [][/\ \A r \in ReqIds : PurchaseStep(r) =>
             IF requests'[r].status = 201
             THEN LET c  == requests'[r].customerId
                      a  == requests'[r].amount
                      pe == PointsTable[a, requests[r].customer.role]
                  IN  /\ purchases' = Append(purchases,
                             [customerId |-> c, amount |-> a, pointsEarned |-> pe])
                      /\ customers'[c].points = customers[c].points + pe
                      /\ customers'[c].totalSpent = customers[c].totalSpent + a
                      /\ customers'[c].visitCount = customers[c].visitCount + 1
                      /\ \A d \in CustomerIds \ {c} : customers'[d] = customers[d]
                      /\ coupons' = coupons
             ELSE store' = store
       /\ Len(purchases') > Len(purchases) => \E r \in ReqIds : PurchaseCommit(r)
      ]_vars

\* a purchase has been committed and answered 201
C6_Witness ==
    \E r \in ReqIds :
        /\ requests[r].op = "purchase" /\ requests[r].status = 201
        /\ \E i \in 1..Len(purchases) :
              /\ purchases[i].customerId = requests[r].customerId
              /\ purchases[i].pointsEarned > 0

\* C7: for a customer created by createCustomer and changed only by
\* sequential purchases, the role is NORMAL below 20 visits, LOYAL from 20
\* to 49 and OWNER from 50 on.
C7_RoleFollowsVisits ==
    \A c \in CustomerIds :
        (customers[c].exists /\ customers[c].loyaltyId = NewCustomer.loyaltyId)
        => customers[c].role =
              IF customers[c].visitCount < 20 THEN "NORMAL"
              ELSE IF customers[c].visitCount < 50 THEN "LOYAL"
              ELSE "OWNER"

\* the created customer's 20th purchase has been recorded
C7_Witness ==
    /\ customers["c1"].loyaltyId = NewCustomer.loyaltyId
    /\ customers["c1"].visitCount = 20
    /\ customers["c1"].role = "LOYAL"
    /\ Len(purchases) = 20

\* C8: after two overlapping purchases for the same customer (both read the
\* same visit count) have committed, and no other request wrote the
\* customer, the stored role is roleAfterVisit of the final visit count.
C8_RoleAfterOverlap ==
    \A r1, r2 \in ReqIds :
        ( /\ Pair(r1, r2, "purchase")
          /\ requests[r1].status = 201 /\ requests[r2].status = 201
          /\ requests[r1].customerId = requests[r2].customerId
          /\ requests[r1].customer.visitCount = requests[r2].customer.visitCount
          /\ \A r3 \in ReqIds \ {r1, r2} :
                \/ requests[r3].op \notin {"purchase", "update"}
                \/ requests[r3].customerId # requests[r1].customerId )
        => customers[requests[r1].customerId].role =
              roleAfterVisit(requests[r1].customer.role,
                             customers[requests[r1].customerId].visitCount)

\* C9: calculatePoints(amount, role) = floor(floor(amount / 100) * m) in
\* exact arithmetic, m = 1.1, 1.4, 1.7 or 1.0.
C9_PointsExact ==
    calc.backend >= 0 => calc.backend = ExactPoints(calc.amount, calc.role)

\* C10: the points the backend records equal the README formula
\* Math.floor((amount / 100) * multiplier) and the preview of the admin
\* panel.
C10_BackendIsPreview ==
    (calc.backend >= 0 /\ calc.preview >= 0)
    => /\ calc.backend = readmeFormula(calc.amount, calc.role)
       /\ calc.backend = calc.preview

(***************************************************************************)
(* Properties of the coupon ledger, the identifiers and the access rules.  *)
(***************************************************************************)
\* request r starts in this step (the first step of its handler)
Starts(r) == requests[r].pc = "idle" /\ requests'[r].pc # "idle"

\* request r takes a step of createCoupon
CouponStep(r) == requests'[r] # requests[r] /\ requests'[r].op = "coupon"

\* the coupon createCoupon writes for request req
newCoupon(req) ==
    [code |-> req.couponCode, customerId |-> req.customerId, value |-> 1000,
     redeemed |-> FALSE, redeemedAt |-> 0]

\* the members of a sequence
Range(seq) == {seq[i] : i \in 1..Len(seq)}

\* no member of a sequence occurs twice
NoDuplicates(seq) == \A i, j \in 1..Len(seq) : seq[i] = seq[j] => i = j

\* C11: createCoupon for a customer with fewer than 100 points answers 400
\* (InsufficientPoints) and changes nothing; with exactly 100 points it is
\* not refused, and when it commits it leaves 0 points, so that the next
\* createCoupon of that customer is refused.
C11_PointsThreshold ==
    [][\A r \in ReqIds :
          LET c == requests'[r].customerId IN
          /\ ( /\ Starts(r) /\ requests'[r].op = "coupon"
               /\ customers[c].exists /\ customers[c].points < 100 )
             => /\ requests'[r].pc = "done" /\ requests'[r].status = 400
                /\ store' = store
          /\ ( /\ Starts(r) /\ requests'[r].op = "coupon"
               /\ customers[c].exists /\ customers[c].points = 100 )
             => requests'[r].pc = "findLast"
          /\ ( /\ CouponStep(r) /\ requests'[r].status = 201
               /\ customers[c].points = 100 )
             => /\ customers'[c].points = 0
                /\ Len(coupons') = Len(coupons) + 1]_vars

\* a second createCoupon refused after the first took the customer's 100
\* points
C11_Witness ==
    \E r \in ReqIds :
        /\ requests[r].op = "coupon" /\ requests[r].status = 400
        /\ requests[r].customer.points = 0
        /\ \E i \in 1..Len(coupons) :
              /\ coupons[i].customerId = requests[r].customerId
              /\ coupons[i].code # InitCoupon.code

\* C12: the step in which createCoupon answers 201 appends exactly one
\* coupon of the customer (value 1000, not redeemed, no redeemedAt) and
\* takes exactly 100 points from that customer; the customer's other
\* fields, the other customers, the existing coupons and the purchases stay
\* as they are.  Every other step of createCoupon leaves the store as it is.
C12_CouponAtomic ==
    [][\A r \in ReqIds : CouponStep(r) =>
          IF requests'[r].status = 201
          THEN LET c == requests'[r].customerId IN
               /\ coupons' = Append(coupons, newCoupon(requests[r]))
               /\ customers'[c] = [customers[c] EXCEPT !.points = @ - 100]
               /\ \A d \in CustomerIds \ {c} : customers'[d] = customers[d]
               /\ purchases' = purchases
          ELSE store' = store]_vars

\* a customer with 150 points is left with 50 by a coupon, beside another
\* coupon and a purchase
C12_Witness ==
    \E r \in ReqIds :
        /\ requests[r].op = "coupon" /\ requests[r].status = 201
        /\ requests[r].customer.points = 150
        /\ customers[requests[r].customerId].points = 50
        /\ Len(coupons) >= 2
        /\ Len(purchases) >= 1

\* the coupon with this code is redeemed
Redeemed(code) == \E i \in CouponIndex(code) : coupons[i].redeemed

C14_CodesNeverReissued ==
    /\ NoDuplicates(history.codes)
    /\ \A r \in ReqIds :
          (requests[r].op = "coupon" /\ requests[r].pc = "tx")
          => requests[r].couponCode \notin Range(history.codes)

\* C15: the loyalty ID a createCustomer request has generated differs from
\* every loyalty ID assigned before it and has a greater number than all of
\* them; no loyalty ID is assigned twice.
C15_LoyaltyIdsNeverReassigned ==
    /\ NoDuplicates(history.loyaltyIds)
    /\ \A r \in ReqIds :
          (requests[r].op = "createCustomer" /\ requests[r].pc = "create")
          => \A id \in Range(history.loyaltyIds) :
                id.prefix = "CUST" =>
                   /\ requests[r].loyaltyId # id
                   /\ parseInt(requests[r].loyaltyId.suffix) > parseInt(id.suffix)

\* C16: no two createCustomer requests under way hold the same generated
\* loyalty ID, no two createCoupon requests for different customers hold
\* the same generated code, and none of these requests answers 500.
C16_NoCollision ==
    /\ \A r1, r2 \in ReqIds :
          ( /\ r1 # r2
            /\ requests[r1].op = "createCustomer" /\ requests[r2].op = "createCustomer"
            /\ requests[r1].email # requests[r2].email
            /\ requests[r1].loyaltyId # NoLoyaltyId )
          => requests[r1].loyaltyId # requests[r2].loyaltyId
    /\ \A r1, r2 \in ReqIds :
          ( /\ r1 # r2
            /\ requests[r1].op = "coupon" /\ requests[r2].op = "coupon"
            /\ requests[r1].customerId # requests[r2].customerId
            /\ requests[r1].couponCode # NoCode )
          => requests[r1].couponCode # requests[r2].couponCode
    /\ \A r \in ReqIds :
          requests[r].op \in {"createCustomer", "coupon"} => requests[r].status # 500

\* C17: a step of redeemCoupon leaves every customer and every purchase as
\* it is, adds and removes no coupon, and changes of the coupons at most the
\* redeemed and redeemedAt fields of the coupon with the request's code.
C17_RedeemFrame ==
    [][\A r \in ReqIds :
          (requests'[r] # requests[r] /\ requests'[r].op = "redeem") =>
             /\ customers' = customers
             /\ purchases' = purchases
             /\ Len(coupons') = Len(coupons)
             /\ \A i \in 1..Len(coupons) :
                   /\ coupons[i].code # requests'[r].code => coupons'[i] = coupons[i]
                   /\ coupons'[i] = [coupons[i] EXCEPT
                                        !.redeemed = coupons'[i].redeemed,
                                        !.redeemedAt = coupons'[i].redeemedAt]]_vars

\* a coupon has been redeemed while its owner holds another coupon, not
\* redeemed, and a purchase is on record
C17_Witness ==
    \E r \in ReqIds :
        /\ requests[r].op = "redeem" /\ requests[r].status = 200
        /\ Len(purchases) >= 1
        /\ \E i, j \in 1..Len(coupons) :
              /\ coupons[i].code = requests[r].code /\ coupons[i].redeemed
              /\ coupons[j].customerId = coupons[i].customerId
              /\ ~coupons[j].redeemed

\* the operations on one customer's data
OwnOps == {"coupon", "getCoupons", "getPurchases", "getCustomer", "update"}

\* the operations of the administrator
AdminOps == {"purchase", "lookup", "redeem", "createCustomer", "deleteCustomer", "getAll"}

\* C18: a request of a requester who is not an administrator for
\* createCoupon, the coupon list, the purchase list, getCustomerById or
\* updateCustomer (with a body the validation accepts) that names another
\* customer's id answers 403 (Forbidden) at once and changes nothing.
C18_OthersForbidden ==
    [][\A r \in ReqIds :
          ( /\ Starts(r)
            /\ requests'[r].op \in OwnOps
            /\ requests'[r].actor.role # "ADMIN"
            /\ requests'[r].customerId # requests'[r].actor.id
            /\ validUpdate(requests'[r].body) )
          => /\ requests'[r].pc = "done" /\ requests'[r].status = 403
             /\ UNCHANGED <<store, year, history>>]_vars

\* customer c1 has asked to set the balance of c2 and c2 has it as before
C18_Witness ==
    \E r \in ReqIds :
        /\ requests[r].op = "update" /\ requests[r].status = 403
        /\ requests[r].actor.id = "c1" /\ requests[r].customerId = "c2"
        /\ requests[r].body.fields = {"points"}
        /\ customers["c2"] = OtherCustomer

\* C19: a request for recordPurchase, lookupCoupon, redeemCoupon,
\* createCustomer, deleteCustomer or the list of all customers from a
\* requester whose role is NORMAL, LOYAL or OWNER answers 403 at once and
\* changes nothing; a step of such a request that changes the store belongs
\* to an administrator.
C19_AdminOnly ==
    [][\A r \in ReqIds :
          (requests'[r] # requests[r] /\ requests'[r].op \in AdminOps) =>
             /\ requests'[r].actor.role # "ADMIN"
                => /\ requests'[r].pc = "done" /\ requests'[r].status = 403
                   /\ store' = store
             /\ store' # store => requests'[r].actor.role = "ADMIN"]_vars

\* a customer whose token says OWNER has asked to delete a customer, who is
\* still there, after an administrator's request of that kind took effect
C19_Witness ==
    \E r \in ReqIds :
        /\ requests[r].op = "deleteCustomer" /\ requests[r].status = 403
        /\ requests[r].actor.role = "OWNER"
        /\ customers[requests[r].customerId].exists
        /\ \E c \in history.ids : ~customers[c].exists

\* request r is an update of customer c that may set the role: an
\* administrator's, answered 200
AdminRoleUpdate(r, c) ==
    /\ Starts(r) /\ requests'[r].op = "update"
    /\ requests'[r].customerId = c
    /\ requests'[r].actor.role = "ADMIN"
    /\ requests'[r].status = 200

\* request r commits a purchase of customer c
PurchaseCommitFor(r, c) ==
    /\ requests'[r] # requests[r] /\ requests'[r].op = "purchase"
    /\ requests'[r].status = 201 /\ requests'[r].customerId = c

\* C20: an updateCustomer request (with a body the validation accepts) that
\* carries a role and comes from a requester who is not an administrator
\* answers 403 and leaves every customer as it is; the role of a customer
\* changes only in the commit of a purchase or in an administrator's update.
C20_RoleNotSelfSet ==
    [][/\ \A r \in ReqIds :
             ( /\ Starts(r) /\ requests'[r].op = "update"
               /\ requests'[r].actor.role # "ADMIN"
               /\ "role" \in requests'[r].body.fields
               /\ validUpdate(requests'[r].body) )
             => /\ requests'[r].pc = "done" /\ requests'[r].status = 403
                /\ customers' = customers
       /\ \A c \in CustomerIds :
             ( /\ customers[c].exists /\ customers'[c].exists
               /\ customers'[c].role # customers[c].role )
             => \E r \in ReqIds : AdminRoleUpdate(r, c) \/ PurchaseCommitFor(r, c)]_vars

\* customer c1 has asked to become OWNER, was refused and is NORMAL; an
\* administrator's update has changed a role
C20_Witness ==
    \E r \in ReqIds :
        /\ requests[r].op = "update" /\ requests[r].status = 403
        /\ requests[r].actor.id = "c1" /\ requests[r].customerId = "c1"
        /\ requests[r].body = Body({"role"}, 0, "OWNER", 0)
        /\ customers["c1"].role = "NORMAL"
        /\ customers["c2"].exists /\ customers["c2"].role = "OWNER"

(***************************************************************************)
(* Properties of the customer records, the references and the balances.    *)
(***************************************************************************)
\* C21: a customer's loyaltyId is the same after every step in which the
\* customer exists before and after.
C21_LoyaltyIdImmutable ==
    [][\A c \in CustomerIds :
          (customers[c].exists /\ customers'[c].exists)
          => customers'[c].loyaltyId = customers[c].loyaltyId]_vars

\* the customer or the coupon the request names is not in the store
MissingTarget(req) ==
    \/ /\ req.op \in {"purchase", "coupon", "update", "deleteCustomer"}
       /\ ~customers[req.customerId].exists
    \/ /\ req.op \in {"lookup", "redeem"}
       /\ CouponIndex(req.code) = {}

\* C22: an administrator's recordPurchase, createCoupon, lookupCoupon,
\* redeemCoupon, updateCustomer (with a body the validation accepts) or
\* deleteCustomer that names a customer or a code not in the store answers
\* 404 (NotFound) at once and changes nothing.
C22_MissingIsNotFound ==
    [][\A r \in ReqIds :
          ( /\ Starts(r)
            /\ requests'[r].actor.role = "ADMIN"
            /\ validUpdate(requests'[r].body)
            /\ MissingTarget(requests'[r]) )
          => /\ requests'[r].pc = "done" /\ requests'[r].status = 404
             /\ store' = store]_vars

\* request r takes a step of createCustomer
CreateCustomerStep(r) ==
    requests'[r] # requests[r] /\ requests'[r].op = "createCustomer"

\* C23: the step in which createCustomer answers 201 adds one customer with
\* role NORMAL and points, visitCount and totalSpent 0, the generated
\* loyaltyId and the email of the request, whatever the body carries, and
\* changes nothing else; every other step of createCustomer leaves the store
\* and the loyalty IDs handed out as they are; a request whose email a
\* customer holds answers 400 at once.
C23_CreatedAsNormal ==
    [][\A r \in ReqIds :
          /\ CreateCustomerStep(r) =>
                IF requests'[r].status = 201
                THEN \E c \in CustomerIds :
                        /\ ~customers[c].exists
                        /\ customers' = [customers EXCEPT ![c] =
                              [exists |-> TRUE, loyaltyId |-> requests[r].loyaltyId,
                               email |-> requests[r].email, role |-> "NORMAL",
                               points |-> 0, totalSpent |-> 0, visitCount |-> 0]]
                        /\ purchases' = purchases /\ coupons' = coupons
                ELSE /\ store' = store
                     /\ history'.loyaltyIds = history.loyaltyIds
          /\ ( /\ Starts(r) /\ requests'[r].op = "createCustomer"
               /\ requests'[r].actor.role = "ADMIN"
               /\ \E c \in CustomerIds :
                     customers[c].exists /\ customers[c].email = requests'[r].email )
             => requests'[r].pc = "done" /\ requests'[r].status = 400]_vars

\* a customer created from a body that names the role ADMIN and 500 points
\* is NORMAL with no points
C23_Witness ==
    \E r \in ReqIds :
        /\ requests[r].op = "createCustomer" /\ requests[r].status = 201
        /\ requests[r].body = Body({"role", "points"}, 500, "ADMIN", 0)
        /\ customers[requests[r].customerId].role = "NORMAL"
        /\ customers[requests[r].customerId].points = 0

\* C24: after every step each purchase and each coupon names an existing
\* customer, and an administrator's lookupCoupon or redeemCoupon on a code
\* that belonged to a deleted customer answers 404 (NotFound).
C24_NoOrphans ==
    [][/\ \A i \in 1..Len(coupons') : customers'[coupons'[i].customerId].exists
       /\ \A i \in 1..Len(purchases') : customers'[purchases'[i].customerId].exists
       /\ \A r \in ReqIds :
             ( /\ Starts(r) /\ requests'[r].op \in {"lookup", "redeem"}
               /\ requests'[r].actor.role = "ADMIN"
               /\ requests'[r].code \in history.deleted )
             => requests'[r].pc = "done" /\ requests'[r].status = 404]_vars

C26_GrowthByAdminOnly ==
    [][\A c \in CustomerIds :
          ( /\ customers[c].exists /\ customers'[c].exists
            /\ \/ customers'[c].points > customers[c].points
               \/ customers'[c].visitCount > customers[c].visitCount
               \/ customers'[c].totalSpent > customers[c].totalSpent )
          => \E r \in ReqIds :
                /\ requests'[r] # requests[r]
                /\ requests'[r].op \in {"purchase", "update"}
                /\ requests'[r].customerId = c
                /\ requests'[r].actor.role = "ADMIN"]_vars

\* the purchases and the coupons of customer c
PurchasesOf(c) == {i \in 1..Len(purchases) : purchases[i].customerId = c}

CouponsOf(c) == {i \in 1..Len(coupons) : coupons[i].customerId = c}

\* the sum of f over a finite set of indices
RECURSIVE SumOver(_, _)
SumOver(f, S) ==
    IF S = {} THEN 0
    ELSE LET i == CHOOSE j \in S : TRUE IN f[i] + SumOver(f, S \ {i})

\* C27: for each customer, points = the pointsEarned of the customer's
\* purchases - 100 for each of the customer's coupons, visitCount = the
\* number of the customer's purchases, totalSpent = the amounts of the
\* customer's purchases.
C27_BalanceIsLedger ==
    \A c \in CustomerIds : customers[c].exists =>
        /\ customers[c].points =
              SumOver([i \in PurchasesOf(c) |-> purchases[i].pointsEarned], PurchasesOf(c))
                 - 100 * Cardinality(CouponsOf(c))
        /\ customers[c].visitCount = Cardinality(PurchasesOf(c))
        /\ customers[c].totalSpent =
              SumOver([i \in PurchasesOf(c) |-> purchases[i].amount], PurchasesOf(c))

\* two purchases of one customer committed after both had read the row,
\* and a coupon taken from the points
C27_Witness ==
    \E r1, r2 \in ReqIds :
        /\ Pair(r1, r2, "purchase")
        /\ requests[r1].status = 201 /\ requests[r2].status = 201
        /\ requests[r1].customerId = requests[r2].customerId
        /\ requests[r1].customer = requests[r2].customer
        /\ CouponsOf(requests[r1].customerId) # {}

\* C28: the purchase a commit appends carries calculatePoints of its amount
\* and of the role the customer has before the commit, and the purchases
\* recorded before stay as they are.
C28_PointsAtOldRole ==
    [][\A r \in ReqIds : PurchaseCommit(r) =>
          LET c == requests'[r].customerId IN
          /\ Len(purchases') = Len(purchases) + 1
          /\ purchases'[Len(purchases')].pointsEarned =
                PointsTable[requests'[r].amount, customers[c].role]
          /\ \A i \in 1..Len(purchases) : purchases'[i] = purchases[i]]_vars

\* the 20th purchase of a created customer was credited as NORMAL, the 21st
\* as LOYAL
C28_Witness ==
    /\ customers["c1"].loyaltyId = NewCustomer.loyaltyId
    /\ Len(purchases) >= 21
    /\ purchases[20].pointsEarned = PointsTable[2500, "NORMAL"]
    /\ purchases[21].pointsEarned = PointsTable[2500, "LOYAL"]
    /\ PointsTable[2500, "NORMAL"] # PointsTable[2500, "LOYAL"]

(***************************************************************************)
(* Properties of the web client.                                           *)
(***************************************************************************)
\* C29: an API call starts at most one token refresh and sends its request
\* at most twice; when the refresh is refused, or a first 401 finds no
\* refresh token, accessToken, refreshToken and currentUser are removed and
\* the call is rejected.
C29_OneRefreshOneRetry ==
    [][/\ client'.refreshes <= 1
       /\ client'.sends <= 2
       /\ ( \/ client'.event = "refreshFailed" /\ client.pc = "refreshing"
            \/ /\ client.pc = "sent" /\ client'.event = "response"
               /\ client'.status = 401 /\ ~client.retry
               /\ client.refreshToken = NoToken )
          => /\ client'.accessToken = NoToken
             /\ client'.refreshToken = NoToken
             /\ client'.currentUser = Null
             /\ client'.pc = "rejected"]_vars

\* the request sent again after a refresh got 401 again and was rejected
\* with the refreshed tokens left in place
C29_Witness ==
    /\ client.pc = "rejected" /\ client.status = 401
    /\ client.sends = 2 /\ client.refreshes = 1
    /\ client.accessToken # NoToken

\* the roles a guarded route is for
RouteRoles(path) ==
    IF path = "/admin" THEN {"ADMIN"} ELSE {"NORMAL", "LOYAL", "OWNER"}

\* C30: a guarded route opened by the login or by a navigation renders its
\* page when the stored user has a role of the route, and redirects to
\* /login when no user is stored or the role is not one of the route.
C30_RouteGuard ==
    (client.event \in {"login", "navigate"} /\ client.path \in ProtectedPaths) =>
        IF client.currentUser # Null
           /\ client.currentUser.role \in RouteRoles(client.path)
        THEN client.element = "children"
        ELSE client.element = "/login"

====
